---- MODULE Spec2Model ----
(***************************************************************************)
(* State-machine model of the plays96 streaming gateway: the registry      *)
(* (src/src/state.py), the torrent API (src/src/api/torrents.py), the HLS  *)
(* endpoints (src/src/api/streaming.py) and the background tasks           *)
(* (src/src/background.py), all running as coroutines of one asyncio event *)
(* loop.  A step of the model is the code a coroutine runs between two     *)
(* suspension points (await).                                              *)
(*                                                                         *)
(* Reading of the source.                                                  *)
(*  - streaming.py:136-140 are dedented out of the `if` opened at line 68  *)
(*    while 142-189 are inside it; the model reads 136-189 as the body of  *)
(*    that `if`, so a request that finds the transmuxer running falls off  *)
(*    the end of the handler.                                              *)
(*  - utils.get_largest_video_file reads the key "isVideo" (utils.py:78).  *)
(*    streaming.py:52 stores the flag under "is_video", background.to_dict *)
(*    stores no flag at all.  The model keeps the alert loop's dictionary  *)
(*    as written (no flag) and writes the playlist handler's flag under    *)
(*    the key the selector reads: with the spelling of streaming.py:52 the *)
(*    selector returns None for every torrent, every GET /stream/<id>      *)
(*    ends at streaming.py:57 with 404 and lines 60-189 never run.         *)
(*  - background.py imports WARM_CACHE_SIZE_MB, which config.py does not   *)
(*    define; the model takes the value of the specification's scenario.   *)
(*                                                                         *)
(* Time.  The clock counts ticks of TickMinutes minutes and serves the     *)
(* reaper's staleness test alone.  The waits of the handlers (30 s, 5 min, *)
(* 2 min) are shorter than a tick: a wait may end by its timeout at any of *)
(* its polls, and no request is suspended across a tick.                   *)
(*                                                                         *)
(* Objects.  A request holds the dictionary it looked up, not the registry *)
(* entry: dictionaries are kept by <<infohash, handle>> for as long as the *)
(* registry, a request or the reaper refers to them.                       *)
(*                                                                         *)
(* The legacy server src/app.py keeps a registry and a session of its own; *)
(* of it the model has the direct byte-range stream (stream_file and its   *)
(* direct_stream_generator), as the separate specification SpecRange.      *)
(***************************************************************************)
EXTENDS Integers, Sequences, FiniteSets, Bags, TLC

(* --------------------------- bounds ----------------------------------- *)
MaxGen == 1        \* torrent objects the session creates per infohash
MaxGenAdmit == 2   \* the same, in the specification of the admit path
MaxProc == 2       \* transmuxer processes spawned in one run
MaxAlerts == 2     \* alerts queued in the session between two drains
MaxClock == 1      \* ticks of the wall clock
MaxReq == 2        \* concurrent GET /stream/<id> requests
MaxAdd == 2        \* concurrent POST /torrents requests
TickMinutes == 21  \* wall-clock minutes per tick of the model's clock
BytesPerMB == 3    \* scale of a megabyte (1024 * 1024 in background.py:55)
PieceLength == 2   \* ti.piece_length() of the modelled torrents
FileSize == 4      \* bytes of the file app.py's stream_file serves
ChunkSize == 2     \* scale of chunk_size (1024 * 1024 in app.py:324)

(* ----------------------- program constants ---------------------------- *)
WARM_CACHE_TIMEOUT_MINUTES == 20
WARM_CACHE_SIZE_MB == 1
FileWaitTimeoutMinutes == 5
PlaylistTimeoutMinutes == 2
MaxWaitSeconds == 30
DefaultPriority == 4
UrgentMs == 1000
NormalMs == 0

Hashes == {"hv"}

(* The files of each torrent as the session reports them (ti.file_at(i)). *)
TorrentInfo(h) ==
    IF h = "hv"
    THEN << [path |-> "a", ext |-> ".txt", size |-> 1, offset |-> 0],
            [path |-> "b", ext |-> ".mp4", size |-> 3, offset |-> 1] >>
    ELSE << [path |-> "d", ext |-> ".txt", size |-> 2, offset |-> 0] >>

RECURSIVE SumSizes(_)
SumSizes(fs) == IF fs = << >> THEN 0 ELSE Head(fs).size + SumSizes(Tail(fs))

NumPieces(h) == (SumSizes(TorrentInfo(h)) + PieceLength - 1) \div PieceLength
Pieces(h) == 0..(NumPieces(h) - 1)

(* ti.map_file(file_index, offset, 1): the piece holding that byte. *)
map_file(h, file_index, offset) ==
    (TorrentInfo(h)[file_index].offset + offset) \div PieceLength


(* The pieces that hold bytes of file i (1-based position in TorrentInfo). *)
FilePieces(h, i) ==
    LET f == TorrentInfo(h)[i]
    IN  { p \in Pieces(h) :
            /\ p * PieceLength < f.offset + f.size
            /\ (p + 1) * PieceLength > f.offset }

Min(a, b) == IF a < b THEN a ELSE b
Max(a, b) == IF a > b THEN a ELSE b

RECURSIVE SumOver(_, _, _, _)
SumOver(h, i, ps, acc) ==
    IF ps = {} THEN acc
    ELSE LET p == CHOOSE x \in ps : TRUE
             f == TorrentInfo(h)[i]
             lo == Max(p * PieceLength, f.offset)
             hi == Min((p + 1) * PieceLength, f.offset + f.size)
         IN  SumOver(h, i, ps \ {p}, acc + Max(hi - lo, 0))

(* handle.file_progress(piece_granularity)[i]: bytes of file i that lie in   *)
(* finished pieces.                                                          *)
file_progress(h, done, i) == SumOver(h, i, done \cap FilePieces(h, i), 0)

(* ------------------------- file dictionaries -------------------------- *)
VideoExts == {".mp4", ".mkv", ".avi", ".mov"}

(* dict.get(key): None (falsy) when the key is absent. *)
Get(d, key) == IF key \in DOMAIN d THEN d[key] ELSE FALSE

(* background.to_dict(file_entry) *)
to_dict(fe) == [path |-> fe.path, size |-> fe.size, offset |-> fe.offset]

AlertFiles(h) == [i \in 1..Len(TorrentInfo(h)) |-> to_dict(TorrentInfo(h)[i])]

(* The dictionary the playlist handler builds for file i (0-based index).   *)
(* streaming.py:52 spells the flag's key "is_video"; see the module header. *)
StreamFileDict(h, i) ==
    LET fe == TorrentInfo(h)[i]
    IN  [index |-> i - 1, name |-> fe.path, size |-> fe.size, progress |-> 0,
         isVideo |-> (fe.ext \in VideoExts)]

StreamFiles(h) == [i \in 1..Len(TorrentInfo(h)) |-> StreamFileDict(h, i)]

(* utils.get_largest_video_file, as the position of best_file in files      *)
(* (0 for None): the first file with the flag and a size above every        *)
(* earlier candidate.                                                       *)
RECURSIVE LargestFrom(_, _, _, _)
LargestFrom(files, i, best, max_size) ==
    IF i > Len(files) THEN best
    ELSE IF Get(files[i], "isVideo") = TRUE /\ files[i].size > max_size
         THEN LargestFrom(files, i + 1, i, files[i].size)
         ELSE LargestFrom(files, i + 1, best, max_size)

get_largest_video_file(files) == LargestFrom(files, 1, 0, -1)

(* list.index(x): the first position holding a value equal to x. *)
ListIndex(files, x) ==
    CHOOSE i \in 1..Len(files) :
        /\ files[i] = x
        /\ \A j \in 1..(i - 1) : files[j] # x

(* streaming.py:79-83: the first position whose "name" equals the video's. *)
NameIndex(files, name) ==
    IF \E i \in 1..Len(files) : files[i].name = name
    THEN CHOOSE i \in 1..Len(files) :
            /\ files[i].name = name
            /\ \A j \in 1..(i - 1) : files[j].name # name
    ELSE 0

(* ------------------------------ state --------------------------------- *)
VARIABLES
    now,             \* the wall clock, in ticks
    ses,             \* the libtorrent session: per infohash, its torrent
    nextGen,         \* per infohash, torrent objects created so far
    alerts,          \* the session's alert queue
    active_torrents, \* the registry, in insertion order: (infohash, dict)
    dicts,           \* the torrent dictionaries, by <<infohash, handle>>
    procs,           \* the transmuxer processes spawned, by pid
    hls,             \* per infohash: hls/<infohash>/ and its stream.m3u8
    req,             \* the GET /stream/<id> requests in flight
    addr,            \* the POST /torrents requests in flight
    reaper,          \* the cleanup_inactive_streams task
    resp,            \* the HTTP response the last step sent, if any
    rd               \* app.py's direct stream: the file and the generator

vars == << now, ses, nextGen, alerts, active_torrents, dicts, procs, hls,
           req, addr, reaper, resp, rd >>

NoTorrent == [gen |-> 0, meta |-> FALSE, paused |-> FALSE, pieces |-> {},
              prio |-> << >>, deadlines |-> {}]

NoResponse == [op |-> "", hash |-> "", code |-> ""]
SleepingReaper == [pc |-> "sleep", t |-> 0, todo |-> << >>, hash |-> "",
                   gen |-> 0, pid |-> 0]

(* app.py's stream_file before a request: the file exists on disk with    *)
(* its first byte (app.py:257-262 answers 503 until libtorrent has created  *)
(* it).                                                                     *)
(* No deadline is set on a piece. *)
NoDeadline == -1

(* The piece of the served file's torrent that holds the file's byte at     *)
(* offset o (lt_info.map_file(file_index, o, 1)); the file starts the       *)
(* torrent.                                                                 *)
RangePiece(o) == o \div PieceLength

RangePieces == 0..RangePiece(FileSize - 1)

NoRead == [pc |-> "idle", start |-> 0, end |-> 0, pos |-> 0, body |-> << >>,
           avail |-> 1, status |-> 0, content_length |-> 0, waited |-> FALSE,
           deadline |-> [p \in RangePieces |-> NoDeadline]]

Init ==
    /\ now = 0
    /\ ses = [h \in Hashes |-> NoTorrent]
    /\ nextGen = [h \in Hashes |-> 0]
    /\ alerts = << >>
    /\ active_torrents = << >>
    /\ dicts = [k \in {} |-> 0]
    /\ procs = << >>
    /\ hls = [h \in Hashes |-> [dir |-> FALSE, playlist |-> FALSE]]
    /\ req = EmptyBag
    /\ addr = EmptyBag
    /\ reaper = SleepingReaper
    /\ resp = NoResponse
    /\ rd = NoRead

(* active_torrents.get(h): the registry is a Python dict, which keeps its   *)
(* keys in insertion order; an entry names the dictionary it holds by the   *)
(* handle that dictionary was created with.                                 *)
Registered(at, h) == \E i \in 1..Len(at) : at[i].hash = h
Lookup(at, h) == (CHOOSE e \in {at[i] : i \in 1..Len(at)} : e.hash = h).gen

(* handle.is_valid(): the handle still names a torrent of the session. *)
is_valid(s, h, g) == g # 0 /\ s[h].gen = g

(* process.returncode is None *)
IsLive(ps, pid) == pid # 0 /\ ps[pid].st # "exited"

Minutes(ticks) == ticks * TickMinutes

(* source_file_path.exists(): libtorrent creates a file with its first     *)
(* written piece and deletes it with the torrent.                          *)
SourceExists(s, h, i) == s[h].gen # 0 /\ s[h].pieces \cap FilePieces(h, i) # {}

(* -------------------- the environment: time, swarm, ffmpeg ------------- *)
(* TickMinutes pass: more than the waits of a GET /stream/<id> (the source *)
(* file, then the playlist) and of a POST /torrents (the metadata) last,   *)
(* so no request is suspended across a tick.  Within a tick the model does *)
(* not measure time: a wait may reach its timeout at any of its polls.     *)
Tick ==
    /\ now < MaxClock
    /\ req # EmptyBag => TickMinutes <= FileWaitTimeoutMinutes + PlaylistTimeoutMinutes
    /\ addr # EmptyBag => TickMinutes * 60 <= MaxWaitSeconds
    /\ now' = now + 1
    /\ UNCHANGED << rd, ses, nextGen, alerts, active_torrents, dicts, procs,
                    hls, req, addr, reaper >>
    /\ resp' = NoResponse

(* The queue keeps one alert of a kind per handle: the handlers read the    *)
(* session, not the alert, so a second equal alert in a batch changes       *)
(* nothing.                                                                 *)
Post(q, al) ==
    IF \E i \in 1..Len(q) : q[i] = al THEN q ELSE Append(q, al)

(* The swarm delivers the metadata: the session posts metadata_received. *)
MetadataArrives(h) ==
    /\ ses[h].gen # 0
    /\ ~ses[h].meta
    /\ ~ses[h].paused
    /\ Len(alerts) < MaxAlerts
    /\ ses' = [ses EXCEPT ![h].meta = TRUE]
    /\ alerts' = Append(alerts, [kind |-> "metadata_received", hash |-> h,
                                 gen |-> ses[h].gen])
    /\ UNCHANGED << rd, now, nextGen, active_torrents, dicts, procs, hls, req,
                    addr, reaper >>
    /\ resp' = NoResponse

(* A piece of a file with non-zero priority completes: piece_finished. *)
PieceFinished(h, p) ==
    /\ ses[h].gen # 0
    /\ ses[h].meta
    /\ ~ses[h].paused
    /\ p \in Pieces(h) \ ses[h].pieces
    /\ \E i \in 1..Len(TorrentInfo(h)) :
            p \in FilePieces(h, i) /\ ses[h].prio[i] > 0
    /\ Len(alerts) < MaxAlerts
    /\ ses' = [ses EXCEPT ![h].pieces = @ \cup {p}]
    /\ alerts' = Post(alerts, [kind |-> "piece_finished", hash |-> h,
                               gen |-> ses[h].gen])
    /\ UNCHANGED << rd, now, nextGen, active_torrents, dicts, procs, hls, req,
                    addr, reaper >>
    /\ resp' = NoResponse

(* The torrent fails (a disk error, say): the session posts torrent_error.  *)
(* Whether the session also reports the torrent paused from then on depends *)
(* on the libtorrent build, so both outcomes are allowed.                   *)
TorrentError(h) ==
    /\ ses[h].gen # 0
    /\ Len(alerts) < MaxAlerts
    /\ \E stopped \in {ses[h].paused, TRUE} :
            ses' = [ses EXCEPT ![h].paused = stopped]
    /\ alerts' = Post(alerts, [kind |-> "torrent_error", hash |-> h,
                               gen |-> ses[h].gen])
    /\ UNCHANGED << rd, now, nextGen, active_torrents, dicts, procs, hls, req,
                    addr, reaper >>
    /\ resp' = NoResponse

(* The transmuxer writes its first segment and the playlist. *)
FfmpegWritesPlaylist(p) ==
    /\ p \in 1..Len(procs)
    /\ procs[p].st = "running"
    /\ hls[procs[p].hash].dir
    /\ ~hls[procs[p].hash].playlist
    /\ hls' = [hls EXCEPT ![procs[p].hash].playlist = TRUE]
    /\ UNCHANGED << rd, now, ses, nextGen, alerts, active_torrents, dicts, procs,
                    req, addr, reaper >>
    /\ resp' = NoResponse

(* The transmuxer exits: on its own (end of input, an error) or after the  *)
(* SIGTERM of process.terminate().                                         *)
ProcExit(p) ==
    /\ p \in 1..Len(procs)
    /\ procs[p].st # "exited"
    /\ procs' = [procs EXCEPT ![p].st = "exited"]
    /\ UNCHANGED << rd, now, ses, nextGen, alerts, active_torrents, dicts, hls,
                    req, addr, reaper >>
    /\ resp' = NoResponse


(* Python frees a dictionary nothing refers to: the registry, a request    *)
(* that looked it up, the reaper's snapshot.                                *)
Refs(at, rq, rp) ==
    {<<at[i].hash, at[i].gen>> : i \in 1..Len(at)}
    \cup {<<q.hash, q.gen>> : q \in BagToSet(rq)}
    \cup (IF rp.pc = "wait_proc"
          THEN {<<rp.hash, rp.gen>>}
               \cup {<<rp.todo[i].hash, rp.todo[i].gen>> : i \in 1..Len(rp.todo)}
          ELSE {})

Collect(D, at, rq, rp) == [k \in DOMAIN D \cap Refs(at, rq, rp) |-> D[k]]

(* Requests in flight are a bag: the coroutines of one handler differ only  *)
(* in their local variables.                                                *)
Put(bag, q) == bag (+) SetToBag({q})
Drop(bag, q) == bag (-) SetToBag({q})
Move(bag, q, q2) == Put(Drop(bag, q), q2)

(* ------------------- GET /stream/<id>: get_hls_playlist ---------------- *)
Response(op, h, code) == [op |-> op, hash |-> h, code |-> code]

(* The position in TorrentInfo of the file the source path names. *)
SourceFile(h, name) ==
    CHOOSE i \in 1..Len(TorrentInfo(h)) : TorrentInfo(h)[i].path = name

(* streaming.py:85-87 *)
StreamPriorities(files, video_file_index) ==
    [i \in 1..Len(files) |-> IF i = video_file_index THEN 7 ELSE 1]

(* asyncio.create_subprocess_exec forks the transmuxer before it suspends. *)
Spawn(ps, h) == Append(ps, [hash |-> h, st |-> "running"])

(* streaming.py:36-57: the files and the video file (0: none) the handler   *)
(* goes on with, the files re-fetched from the handle when none is found.   *)
ChooseVideo(h, d, has_metadata) ==
    LET first == get_largest_video_file(d.files)
    IN  IF first # 0 THEN [files |-> d.files, video |-> first]
        ELSE IF ~has_metadata THEN [files |-> d.files, video |-> 0]
        ELSE [files |-> StreamFiles(h),
              video |-> get_largest_video_file(StreamFiles(h))]

(* streaming.py:68: the handler starts a transmuxer. *)
MustStart(ps, d) == ~IsLive(ps, d.hls_process)

(* Lines 27-117, up to the first suspension: the lookup, the access time,   *)
(* the choice of the video file, the resume, the priorities, the HLS        *)
(* directory and the first look for the source file.                        *)
StreamStart(h) ==
    /\ BagCardinality(req) < MaxReq
    /\ IF ~Registered(active_torrents, h)
       THEN /\ resp' = Response("stream", h, "404")
            /\ UNCHANGED << ses, dicts, procs, hls, req >>
       ELSE
        LET g == Lookup(active_torrents, h)
            d == dicts[<<h, g>>]
            c == ChooseVideo(h, d, ses[h].meta)
            idx == NameIndex(c.files, c.files[c.video].name)
            src == SourceFile(h, c.files[c.video].name)
            touched == [d EXCEPT !.hls_last_accessed = now, !.files = c.files]
        IN
        IF c.video = 0
        THEN /\ resp' = Response("stream", h,
                                 IF ses[h].meta THEN "404" ELSE "503")
             /\ dicts' = [dicts EXCEPT ![<<h, g>>] = touched]
             /\ UNCHANGED << ses, procs, hls, req >>
        ELSE IF ~MustStart(procs, d)
        THEN /\ resp' = Response("stream", h, "null")
             /\ dicts' = [dicts EXCEPT ![<<h, g>>] = touched]
             /\ UNCHANGED << ses, procs, hls, req >>
        ELSE
             /\ SourceExists(ses, h, src) => Len(procs) < MaxProc
             /\ dicts' = [dicts EXCEPT ![<<h, g>>] =
                            IF ses[h].paused
                            THEN [touched EXCEPT !.status = "downloading"]
                            ELSE touched]
             /\ ses' = [ses EXCEPT
                            ![h].paused = FALSE,
                            ![h].prio = IF idx # 0
                                        THEN StreamPriorities(c.files, idx)
                                        ELSE @]
             /\ hls' = [hls EXCEPT ![h].dir = TRUE]
             /\ IF SourceExists(ses, h, src)
                THEN /\ procs' = Spawn(procs, h)
                     /\ req' = Put(req, [pc |-> "spawned", hash |-> h,
                                         gen |-> g, pid |-> Len(procs) + 1,
                                         file |-> src])
                ELSE /\ procs' = procs
                     /\ req' = Put(req, [pc |-> "wait_source", hash |-> h,
                                         gen |-> g, pid |-> 0, file |-> src])
             /\ resp' = NoResponse
    /\ UNCHANGED << rd, now, nextGen, alerts, active_torrents, addr, reaper >>

(* Lines 106-147, resumed from the sleep of the source-file wait: the file  *)
(* exists, or file_wait_timeout has passed.                                 *)
StreamSourceWait(q) ==
    /\ q.pc = "wait_source"
    /\ IF SourceExists(ses, q.hash, q.file)
       THEN /\ Len(procs) < MaxProc
            /\ procs' = Spawn(procs, q.hash)
            /\ req' = Move(req, q, [q EXCEPT !.pc = "spawned",
                                             !.pid = Len(procs) + 1])
            /\ dicts' = dicts
            /\ resp' = NoResponse
       ELSE /\ procs' = procs
            /\ req' = Drop(req, q)
            /\ resp' = Response("stream", q.hash, "500")
            /\ dicts' = Collect(dicts, active_torrents, req', reaper)
    /\ UNCHANGED << rd, now, ses, nextGen, alerts, active_torrents, hls, addr,
                    reaper >>

(* Lines 167-189: one pass of the playlist wait of request q on the         *)
(* dictionaries D; timed_out: the two minutes since start_time have passed. *)
PlaylistPass(q, timed_out, D) ==
    IF hls[q.hash].playlist
    THEN /\ req' = Drop(req, q)
         /\ resp' = Response("stream", q.hash, "200")
         /\ procs' = procs
         /\ dicts' = Collect(D, active_torrents, req', reaper)
    ELSE IF ~IsLive(procs, q.pid)
    THEN /\ req' = Drop(req, q)
         /\ resp' = Response("stream", q.hash, "500")
         /\ procs' = procs
         /\ dicts' = Collect(D, active_torrents, req', reaper)
    ELSE IF timed_out
    THEN /\ req' = Move(req, q, [q EXCEPT !.pc = "terminating"])
         /\ procs' = [procs EXCEPT ![q.pid].st = "terminating"]
         /\ dicts' = D
         /\ resp' = NoResponse
    ELSE /\ req' = Move(req, q, [q EXCEPT !.pc = "wait_playlist"])
         /\ procs' = procs
         /\ dicts' = D
         /\ resp' = NoResponse

(* streaming.py:148: the process is recorded on the dictionary the request  *)
(* holds.                                                                   *)
Publish(D, q) == [D EXCEPT ![<<q.hash, q.gen>>].hls_process = q.pid]

(* Resumed from create_subprocess_exec: line 148, then the first pass of    *)
(* the playlist wait.                                                       *)
StreamPublish(q) ==
    /\ q.pc = "spawned"
    /\ PlaylistPass(q, FALSE, Publish(dicts, q))
    /\ UNCHANGED << rd, now, ses, nextGen, alerts, active_torrents, hls, addr,
                    reaper >>

(* Resumed from the sleep of the playlist wait (line 186): the playlist     *)
(* exists, the process has exited, or the timeout has passed.               *)
StreamPlaylistWait(q) ==
    /\ q.pc = "wait_playlist"
    /\ PlaylistPass(q, TRUE, dicts)
    /\ UNCHANGED << rd, now, ses, nextGen, alerts, active_torrents, hls, addr,
                    reaper >>

(* Resumed from process.wait() after the timeout's terminate (line 179). *)
StreamTerminated(q) ==
    /\ q.pc = "terminating"
    /\ ~IsLive(procs, q.pid)
    /\ req' = Drop(req, q)
    /\ resp' = Response("stream", q.hash, "500")
    /\ dicts' = Collect(dicts, active_torrents, req', reaper)
    /\ UNCHANGED << rd, now, ses, nextGen, alerts, active_torrents, procs, hls,
                    addr, reaper >>

(* ------------- GET /stream/<id>/<segment>: get_hls_segment ------------- *)
(* ffmpeg writes segment000.ts before the playlist that lists it. *)
SegmentExists(h) == hls[h].playlist

get_hls_segment(h) ==
    /\ IF SegmentExists(h)
       THEN /\ resp' = Response("segment", h, "200")
            /\ dicts' = IF Registered(active_torrents, h)
                        THEN [dicts EXCEPT
                                ![<<h, Lookup(active_torrents, h)>>]
                                    .hls_last_accessed = now]
                        ELSE dicts
       ELSE /\ resp' = Response("segment", h, "404")
            /\ dicts' = dicts
    /\ UNCHANGED << rd, now, ses, nextGen, alerts, active_torrents, procs, hls,
                    req, addr, reaper >>

(* ----------------------- POST /torrents: add_torrent ------------------- *)
NewTorrent(h, g) ==
    [gen |-> g, meta |-> FALSE, paused |-> FALSE, pieces |-> {},
     prio |-> [i \in 1..Len(TorrentInfo(h)) |-> DefaultPriority],
     deadlines |-> {}]

(* A session that creates a torrent object for every add. *)
ses_add_torrent_always_new(s, h, g) == [s EXCEPT ![h] = NewTorrent(h, g)]

(* ses.add_torrent(params): a magnet whose torrent the session already      *)
(* holds yields the handle of that torrent (duplicate_is_error is not set). *)
ses_add_torrent(s, h, g) ==
    IF s[h].gen # 0 THEN s ELSE [s EXCEPT ![h] = NewTorrent(h, g)]

(* torrents.py:77-84 *)
NewDict(g) ==
    [handle |-> g, status |-> "metadata", files |-> << >>,
     hls_process |-> 0, hls_last_accessed |-> -1]

Insert(d, k, v) == [x \in DOMAIN d \cup {k} |-> IF x = k THEN v ELSE d[x]]

(* torrents.py:67-86: the response of the add of infohash h whose handle is *)
(* g, on the session s and the registry at.                                 *)
AddResult(at, s, h, g) ==
    IF ~is_valid(s, h, g) THEN "400"
    ELSE IF Registered(at, h) THEN "exists"
    ELSE "added"

(* torrents.py:77-84: the registry and the dictionaries after that add. *)
Register(at, s, h, g) ==
    IF AddResult(at, s, h, g) = "added"
    THEN Append(at, [hash |-> h, gen |-> g])
    ELSE at

RegisterDict(D, at, s, h, g) ==
    IF AddResult(at, s, h, g) = "added"
    THEN Insert(D, <<h, g>>, NewDict(g))
    ELSE D

AddComplete(h, g, s) ==
    /\ resp' = Response("add", h, AddResult(active_torrents, s, h, g))
    /\ active_torrents' = Register(active_torrents, s, h, g)
    /\ dicts' = RegisterDict(dicts, active_torrents, s, h, g)

(* torrents.py:47-65, up to the first sleep of the metadata wait; a handle  *)
(* that is valid with its metadata is not waited for.                       *)
AddStart(m) ==
    /\ BagCardinality(addr) < MaxAdd
    /\ ses' = ses_add_torrent(ses, m, nextGen[m] + 1)
    /\ nextGen' = [nextGen EXCEPT ![m] = Max(@, ses'[m].gen)]
    /\ IF ses'[m].meta
       THEN /\ AddComplete(m, ses'[m].gen, ses')
            /\ addr' = addr
       ELSE /\ addr' = Put(addr, [pc |-> "wait", hash |-> m,
                                  gen |-> ses'[m].gen])
            /\ UNCHANGED << active_torrents, dicts >>
            /\ resp' = NoResponse
    /\ UNCHANGED << rd, now, alerts, procs, hls, req, reaper >>

(* Resumed from the metadata wait: the handle is valid with its metadata,   *)
(* or max_wait has elapsed.                                                 *)
AddResume(q) ==
    /\ addr' = Drop(addr, q)
    /\ AddComplete(q.hash, q.gen, ses)
    /\ UNCHANGED << rd, now, ses, nextGen, alerts, procs, hls, req, reaper >>

(* -------------------- DELETE /torrents/<id>: remove_torrent ------------ *)
Delete(at, h) == SelectSeq(at, LAMBDA e : e.hash # h)

NoHls == [dir |-> FALSE, playlist |-> FALSE]

(* ses.remove_torrent(handle, lt.session.delete_files); on an invalid       *)
(* handle it raises and torrents.py:126 swallows the exception.             *)
ses_remove_torrent(s, h, g) ==
    IF is_valid(s, h, g) THEN [s EXCEPT ![h] = NoTorrent] ELSE s

remove_torrent(h) ==
    /\ Registered(active_torrents, h)
    /\ ses' = ses_remove_torrent(ses, h, Lookup(active_torrents, h))
    /\ active_torrents' = Delete(active_torrents, h)
    /\ hls' = [hls EXCEPT ![h] = NoHls]
    /\ dicts' = Collect(dicts, active_torrents', req, reaper)
    /\ resp' = Response("remove", h, "200")
    /\ UNCHANGED << rd, now, nextGen, alerts, procs, req, addr, reaper >>

(* ------------------------ background: alert_listener ------------------- *)
WarmCacheBytes == WARM_CACHE_SIZE_MB * BytesPerMB

(* background.py:28-65: metadata_received for the registered dictionary k   *)
(* of torrent h, on the dictionaries D and the session S.                   *)
OnMetadata(h, k, D, S) ==
    LET files == AlertFiles(h)
        video == get_largest_video_file(files)
        idx == ListIndex(files, files[video])
        D1 == [D EXCEPT ![k].status = "downloading_warm_cache",
                        ![k].files = files]
    IN  IF video = 0
        THEN [dicts |-> D1, ses |-> S]
        ELSE [dicts |-> D1,
              ses |-> [S EXCEPT
                  ![h].prio = [i \in 1..Len(files) |->
                                  IF i = idx THEN 1 ELSE 0],
                  ![h].deadlines = @ \cup
                      (map_file(h, idx, 0)..map_file(h, idx, WarmCacheBytes))]]

(* background.py:67-91: piece_finished *)
OnPieceFinished(h, k, D, S) ==
    LET files == D[k].files
        video == get_largest_video_file(files)
        idx == ListIndex(files, files[video])
    IN  IF /\ D[k].status = "downloading_warm_cache"
           /\ video # 0
           /\ file_progress(h, S[h].pieces, idx) * PieceLength >= WarmCacheBytes
        THEN [dicts |-> [D EXCEPT ![k].status = "paused"],
              ses |-> [S EXCEPT ![h].paused = TRUE, ![h].deadlines = {}]]
        ELSE [dicts |-> D, ses |-> S]

(* One alert: an alert of neither of the two kinds the loop tests for      *)
(* (background.py:28, 67) is dropped; one of the two is skipped unless its  *)
(* handle is valid and its infohash is registered (lines 30, 69).           *)
OnAlert(al, D, S) ==
    IF al.kind \notin {"metadata_received", "piece_finished"}
    THEN [dicts |-> D, ses |-> S]
    ELSE IF ~is_valid(S, al.hash, al.gen)
            \/ ~Registered(active_torrents, al.hash)
    THEN [dicts |-> D, ses |-> S]
    ELSE LET k == <<al.hash, Lookup(active_torrents, al.hash)>>
         IN  IF al.kind = "metadata_received"
             THEN OnMetadata(al.hash, k, D, S)
             ELSE OnPieceFinished(al.hash, k, D, S)

RECURSIVE HandleAlerts(_, _, _)
HandleAlerts(als, D, S) ==
    IF als = << >> THEN [dicts |-> D, ses |-> S]
    ELSE LET r == OnAlert(Head(als), D, S)
         IN  HandleAlerts(Tail(als), r.dicts, r.ses)

(* One round of the loop: pop_alerts and the handling of every alert popped *)
(* (no suspension until the sleep that ends the round).                     *)
alert_listener ==
    /\ alerts # << >>
    /\ LET r == HandleAlerts(alerts, dicts, ses)
       IN  /\ dicts' = r.dicts
           /\ ses' = r.ses
    /\ alerts' = << >>
    /\ resp' = NoResponse
    /\ UNCHANGED << rd, now, nextGen, active_torrents, procs, hls, req, addr,
                    reaper >>

(* ------------------- background: cleanup_inactive_streams -------------- *)
Crashed == [SleepingReaper EXCEPT !.pc = "crashed"]

RECURSIVE ReapRun(_, _, _, _, _, _)
RECURSIVE ReapFinish(_, _, _, _, _, _, _, _)

(* A reaper that has the session remove the torrent it reaps. *)
ReapFinish_removing_torrent(h, g, todo, t, D, S, H, P) ==
    LET D1 == [D EXCEPT ![<<h, g>>].hls_process = 0,
                        ![<<h, g>>].hls_last_accessed = -1]
        H1 == [H EXCEPT ![h] = NoHls]
    IN  IF ~is_valid(S, h, g)
        THEN [dicts |-> D1, ses |-> S, hls |-> H1, procs |-> P,
              reaper |-> Crashed]
        ELSE ReapRun(todo, t, [D1 EXCEPT ![<<h, g>>].status = "paused"],
                     ses_remove_torrent(S, h, g), H1, P)

(* A reaper that leaves hls/<infohash> on disk. *)
ReapFinish_keeping_hls_dir(h, g, todo, t, D, S, H, P) ==
    LET D1 == [D EXCEPT ![<<h, g>>].hls_process = 0,
                        ![<<h, g>>].hls_last_accessed = -1]
    IN  IF ~is_valid(S, h, g)
        THEN [dicts |-> D1, ses |-> S, hls |-> H, procs |-> P,
              reaper |-> Crashed]
        ELSE IF ~S[h].paused
        THEN ReapRun(todo, t, [D1 EXCEPT ![<<h, g>>].status = "paused"],
                     [S EXCEPT ![h].paused = TRUE], H, P)
        ELSE ReapRun(todo, t, D1, S, H, P)

(* background.py:121-135 for the dictionary <<h, g>>, then the rest of the  *)
(* sweep; handle.status() raises on a handle the session no longer holds    *)
(* and the exception ends the task.                                         *)
ReapFinish(h, g, todo, t, D, S, H, P) ==
    LET D1 == [D EXCEPT ![<<h, g>>].hls_process = 0,
                        ![<<h, g>>].hls_last_accessed = -1]
        H1 == [H EXCEPT ![h] = NoHls]
    IN  IF ~is_valid(S, h, g)
        THEN [dicts |-> D1, ses |-> S, hls |-> H1, procs |-> P,
              reaper |-> Crashed]
        ELSE IF ~S[h].paused
        THEN ReapRun(todo, t, [D1 EXCEPT ![<<h, g>>].status = "paused"],
                     [S EXCEPT ![h].paused = TRUE], H1, P)
        ELSE ReapRun(todo, t, D1, S, H1, P)

(* background.py:106-119 over the snapshot todo, taken at time t, up to the *)
(* next suspension (process.wait()) or the end of the sweep.                *)
ReapRun(todo, t, D, S, H, P) ==
    IF todo = << >>
    THEN [dicts |-> D, ses |-> S, hls |-> H, procs |-> P,
          reaper |-> SleepingReaper]
    ELSE LET h == Head(todo).hash
             g == Head(todo).gen
             d == D[<<h, g>>]
             last == d.hls_last_accessed
         IN  IF last # -1 /\ Minutes(t - last) > WARM_CACHE_TIMEOUT_MINUTES
             THEN IF IsLive(P, d.hls_process)
                  THEN [dicts |-> D, ses |-> S, hls |-> H,
                        procs |-> [P EXCEPT ![d.hls_process].st = "terminating"],
                        reaper |-> [pc |-> "wait_proc", t |-> t,
                                    todo |-> Tail(todo), hash |-> h, gen |-> g,
                                    pid |-> d.hls_process]]
                  ELSE ReapFinish(h, g, Tail(todo), t, D, S, H, P)
             ELSE ReapRun(Tail(todo), t, D, S, H, P)

ReaperStep(r) ==
    /\ reaper' = r.reaper
    /\ dicts' = Collect(r.dicts, active_torrents, req, reaper')
    /\ ses' = r.ses
    /\ hls' = r.hls
    /\ procs' = r.procs
    /\ resp' = NoResponse
    /\ UNCHANGED << rd, now, nextGen, alerts, active_torrents, req, addr >>

(* Woken from sleep(60): one sweep over list(active_torrents.items()). *)
cleanup_inactive_streams ==
    /\ reaper.pc = "sleep"
    /\ ReaperStep(ReapRun(active_torrents, now, dicts, ses, hls, procs))

(* Resumed from process.wait(): the process terminated has exited. *)
cleanup_resume ==
    /\ reaper.pc = "wait_proc"
    /\ ~IsLive(procs, reaper.pid)
    /\ ReaperStep(ReapFinish(reaper.hash, reaper.gen, reaper.todo, reaper.t,
                             dicts, ses, hls, procs))

(* ------------------------------ the system ----------------------------- *)
(* The add of magnet m creates at most the bound-th torrent object of m. *)
Within(m, bound) == ses[m].gen # 0 \/ nextGen[m] < bound

Next ==
    \/ Tick
    \/ \E h \in Hashes : MetadataArrives(h)
    \/ \E h \in Hashes : \E p \in Pieces(h) : PieceFinished(h, p)
    \/ \E h \in Hashes : TorrentError(h)
    \/ \E p \in 1..MaxProc : FfmpegWritesPlaylist(p)
    \/ \E p \in 1..MaxProc : ProcExit(p)
    \/ \E h \in Hashes : StreamStart(h)
    \/ \E q \in BagToSet(req) : StreamSourceWait(q)
    \/ \E q \in BagToSet(req) : StreamPublish(q)
    \/ \E q \in BagToSet(req) : StreamPlaylistWait(q)
    \/ \E q \in BagToSet(req) : StreamTerminated(q)
    \/ \E h \in Hashes : get_hls_segment(h)
    \/ \E m \in Hashes : Within(m, MaxGen) /\ AddStart(m)
    \/ \E q \in BagToSet(addr) : AddResume(q)
    \/ \E h \in Hashes : remove_torrent(h)
    \/ alert_listener
    \/ cleanup_inactive_streams
    \/ cleanup_resume

Spec == Init /\ [][Next]_vars

(* The admit path alone: add, remove, the swarm and the alert loop, with a  *)
(* torrent that is removed and added again.                                 *)
NextAdmit ==
    \/ \E h \in Hashes : MetadataArrives(h)
    \/ \E h \in Hashes : \E p \in Pieces(h) : PieceFinished(h, p)
    \/ \E h \in Hashes : TorrentError(h)
    \/ \E m \in Hashes : Within(m, MaxGenAdmit) /\ AddStart(m)
    \/ \E q \in BagToSet(addr) : AddResume(q)
    \/ \E h \in Hashes : remove_torrent(h)
    \/ alert_listener

SpecAdmit == Init /\ [][NextAdmit]_vars

(* ---------------- app.py: stream_file, direct_stream_generator --------- *)
(* The legacy server's direct stream of one file that needs no remux.  The  *)
(* file on disk is the leading rd.avail bytes of its content: the tail is   *)
(* still being filled.                                                      *)
core == << now, ses, nextGen, alerts, active_torrents, dicts, procs, hls,
           req, addr, reaper, resp >>

(* The content of the file: byte i (from 0) is i + 1. *)
FileBody == [i \in 1..FileSize |-> i]

(* The bytes of the file at offsets from..to. *)
Bytes(from, to) == SubSeq(FileBody, from + 1, to + 1)

(* Range: bytes=S-E, or bytes=S- (NoEnd). *)
NoEnd == -1

(* app.py:339-341 *)
RangeEnd(e) == IF e = NoEnd THEN FileSize - 1 ELSE e

(* libtorrent writes more of the file. *)
FillTail ==
    /\ rd.avail < FileSize
    /\ \E n \in (rd.avail + 1)..FileSize : rd' = [rd EXCEPT !.avail = n]
    /\ UNCHANGED core

(* handle.set_piece_deadline(p, ms): the deadlines dl with that of piece p  *)
(* replaced.                                                                *)
set_piece_deadline(dl, p, ms) == [dl EXCEPT ![p] = ms]

(* app.py:319-320: set_piece_deadline(p, NormalMs) for p from first to      *)
(* last.                                                                    *)
RECURSIVE SetRest(_, _, _)
SetRest(dl, first, last) ==
    IF first > last THEN dl
    ELSE SetRest(set_piece_deadline(dl, first, NormalMs), first + 1, last)

(* app.py:254, then 316-320: the deadlines after stream_file has asked for  *)
(* the head of the file and the generator for the range start..end.         *)
RangeDeadlines(dl, start, end) ==
    LET head == set_piece_deadline(dl, RangePiece(0), UrgentMs)
        start_piece == RangePiece(start)
        end_piece == RangePiece(end)
    IN  SetRest(set_piece_deadline(head, start_piece, UrgentMs),
                start_piece, end_piece)

(* app.py:338-348: the response to Range: bytes=s-e, and the generator up   *)
(* to f.seek(start).                                                        *)
stream_file(s, e) ==
    /\ rd.pc \in {"idle", "done"}
    /\ rd' = [pc |-> "reading", start |-> s, end |-> RangeEnd(e), pos |-> s,
              body |-> << >>, avail |-> rd.avail, status |-> 206,
              content_length |-> RangeEnd(e) - s + 1, waited |-> FALSE,
              deadline |-> RangeDeadlines(rd.deadline, s, RangeEnd(e))]
    /\ UNCHANGED core

(* f.read(read_size) at position pos of a file of avail bytes. *)
Read(pos, read_size, avail) ==
    IF pos >= avail THEN << >>
    ELSE Bytes(pos, Min(pos + read_size, avail) - 1)

(* app.py:325-336: one pass of the loop, up to its sleep. *)
direct_stream_generator ==
    /\ rd.pc = "reading"
    /\ LET pos == rd.pos
           read_size == Min(ChunkSize, rd.end - pos + 1)
           data == Read(pos, read_size, rd.avail)
       IN  IF pos > rd.end
           THEN rd' = [rd EXCEPT !.pc = "done"]
           ELSE IF data = << >>
           THEN IF pos < rd.end
                THEN rd' = [rd EXCEPT !.waited = TRUE]
                ELSE rd' = [rd EXCEPT !.pc = "done"]
           ELSE rd' = [rd EXCEPT !.body = @ \o data,
                                 !.pos = pos + Len(data)]
    /\ UNCHANGED core

NextRange ==
    \/ FillTail
    \/ \E s \in 0..(FileSize - 1) :
           \E e \in (s..(FileSize - 1)) \cup {NoEnd} : stream_file(s, e)
    \/ direct_stream_generator

SpecRange == Init /\ [][NextRange]_vars

(* ------------------------------- claims -------------------------------- *)
LiveProcs(h) == {p \in 1..Len(procs) : procs[p].hash = h /\ IsLive(procs, p)}

Evicted(at, q) == ~(Registered(at, q.hash) /\ Lookup(at, q.hash) = q.gen)

(* C3: a torrent is evicted from the registry only out of the state         *)
(* 'removing', and a GET /stream/<id> request suspended in its source-file  *)
(* wait or playlist wait whose torrent has been removed neither spawns a    *)
(* transmuxer nor creates hls/<infohash>.                                   *)
C3_RemovalCancelsWork ==
    [][ /\ \A h \in Hashes :
            Registered(active_torrents, h) /\ ~Registered(active_torrents', h)
                => dicts[<<h, Lookup(active_torrents, h)>>].status = "removing"
        /\ \A q \in BagToSet(req) :
            q.pc \in {"wait_source", "wait_playlist"}
            /\ Evicted(active_torrents, q)
                => /\ Len(procs') = Len(procs)
                   /\ hls'[q.hash].dir => hls[q.hash].dir ]_vars

(* C4: the registry holds at most one record per infohash, and an add that *)
(* responds while its infohash is registered reports 'already exists' and   *)
(* leaves the registry and the record unchanged.                            *)
C4_IdentityUniqueness ==
    [][ /\ \A i, j \in 1..Len(active_torrents') :
            active_torrents'[i].hash = active_torrents'[j].hash => i = j
        /\ \A h \in Hashes :
            Registered(active_torrents, h)
            /\ resp'.op = "add" /\ resp'.hash = h
                => /\ resp'.code = "exists"
                   /\ active_torrents' = active_torrents
                   /\ dicts' = dicts ]_vars

(* An add of infohash h takes a step: it starts its metadata wait or        *)
(* responds.                                                                *)
AddStep(h) ==
    \/ BagCardinality(addr') > BagCardinality(addr)
    \/ resp'.op = "add" /\ resp'.hash = h

Reaped(h) ==
    /\ LiveProcs(h) = {}
    /\ ~hls[h].dir
    /\ ses[h].paused
    /\ LET d == dicts[<<h, Lookup(active_torrents, h)>>]
       IN  d.hls_process = 0 /\ d.status = "paused"

(* streaming's last access of registered torrent h is older than the        *)
(* timeout (background.py:108).                                             *)
Stale(h) ==
    LET last == dicts[<<h, Lookup(active_torrents, h)>>].hls_last_accessed
    IN  last # -1 /\ Minutes(now - last) > WARM_CACHE_TIMEOUT_MINUTES

Record(h) == dicts[<<h, Lookup(active_torrents, h)>>]

C9_FilesEmptyIffMetadata ==
    \A h \in Hashes :
        Registered(active_torrents, h)
            => (Record(h).files = << >> <=> Record(h).status = "metadata")

(* The session still owes the alert loop the metadata_received alert of    *)
(* the torrent that registered infohash h names.                            *)
MetadataAlertPending(h) ==
    \E i \in 1..Len(alerts) :
        alerts[i] = [kind |-> "metadata_received", hash |-> h,
                     gen |-> Lookup(active_torrents, h)]

(* C10: a registered torrent whose metadata has arrived at the session has, *)
(* once the alert loop has drained its metadata_received alert (the only    *)
(* handler that fills the record), a status of 'downloading_warm_cache' or  *)
(* 'paused' and non-empty files, whether the alert was drained before or    *)
(* after add inserted the record.                                           *)
C10_AdmitAndMetadata ==
    \A h \in Hashes :
        /\ Registered(active_torrents, h)
        /\ is_valid(ses, h, Lookup(active_torrents, h))
        /\ ses[h].meta
        /\ ~MetadataAlertPending(h)
        => /\ Record(h).status \in {"downloading_warm_cache", "paused"}
           /\ Record(h).files # << >>

(* The video file of torrent h the warm cache is about: the largest file   *)
(* with a video extension, as a position in TorrentInfo (0: none).          *)
VideoFile(h) == get_largest_video_file(StreamFiles(h))

(* The pieces that hold the leading WARM_CACHE_SIZE_MB of that file. *)
LeadingPieces(h) ==
    LET v == VideoFile(h)
        n == Min(WarmCacheBytes, TorrentInfo(h)[v].size)
    IN  {map_file(h, v, o) : o \in 0..(n - 1)}

WarmComplete(h) == VideoFile(h) # 0 /\ LeadingPieces(h) \subseteq ses[h].pieces

PieceAlertQueued(h) ==
    \E i \in 1..Len(alerts) :
        alerts[i] = [kind |-> "piece_finished", hash |-> h, gen |-> ses[h].gen]

(* C11: when the alert loop handles a piece_finished alert of a registered  *)
(* torrent whose status is 'downloading_warm_cache', it clears the piece    *)
(* deadlines, pauses the torrent and sets status 'paused' exactly when the  *)
(* leading WARM_CACHE_SIZE_MB of the largest video file are complete.       *)
C11_WarmCacheStop ==
    [][ \A h \in Hashes :
            /\ alert_listener
            /\ Registered(active_torrents, h)
            /\ is_valid(ses, h, Lookup(active_torrents, h))
            /\ Record(h).status = "downloading_warm_cache"
            /\ PieceAlertQueued(h)
            => ( /\ ses'[h].paused
                 /\ Record(h)'.status = "paused"
                 /\ ses'[h].deadlines = {}
                 <=> WarmComplete(h) ) ]_vars


(* C12: the hls_last_accessed of a registered record never moves backwards *)
(* and is never reset: over playlist serves, segment serves and reaper      *)
(* sweeps, a step leaves it where it was or moves it to a later time.       *)
C12_MonotoneAccessTime ==
    [][ \A h \in Hashes :
            /\ Registered(active_torrents, h)
            /\ Registered(active_torrents', h)
            /\ Lookup(active_torrents', h) = Lookup(active_torrents, h)
            => Record(h)'.hls_last_accessed >= Record(h).hls_last_accessed
      ]_vars

C14_MetadataTimeoutFails ==
    [][ \A q \in BagToSet(addr) :
            /\ AddResume(q)
            /\ ~(is_valid(ses, q.hash, q.gen) /\ ses[q.hash].meta)
            => /\ resp' = Response("add", q.hash, "400")
               /\ active_torrents' = active_torrents ]_vars

TorrentErrorQueued(h) ==
    \E i \in 1..Len(alerts) :
        alerts[i] = [kind |-> "torrent_error", hash |-> h,
                     gen |-> Lookup(active_torrents, h)]

(* C15: when the alert loop handles a torrent_error alert of a registered  *)
(* torrent, the record's status becomes 'error' (the state Errored, in     *)
(* which every GET /stream/<id> is to fail with 500 and spawn nothing).     *)
C15_TorrentErrorRecorded ==
    [][ \A h \in Hashes :
            /\ alert_listener
            /\ Registered(active_torrents, h)
            /\ TorrentErrorQueued(h)
            => Record(h)'.status = "error" ]_vars

ReapedIdle(h) ==
    /\ Registered(active_torrents, h)
    /\ Record(h).hls_last_accessed = -1
    /\ \E p \in 1..Len(procs) : procs[p].hash = h
    /\ ses[h].meta
    /\ SourceExists(ses, h, VideoFile(h))
    /\ \A q \in BagToSet(req) : q.hash # h

C18_ReaperNeverRemoves ==
    [][ /\ cleanup_inactive_streams \/ cleanup_resume
            => /\ active_torrents' = active_torrents
               /\ \A h \in Hashes : ses'[h].gen = ses[h].gen
        /\ \A h \in Hashes :
            Registered(active_torrents, h) /\ ~Registered(active_torrents', h)
                => remove_torrent(h) ]_vars

(* The reaper has reaped the stream of hv: the transmuxer has exited, the   *)
(* sweep has ended and paused the torrent, and the record is registered     *)
(* with its torrent in the session.                                         *)
C18_ReapedStillRegistered ==
    /\ Registered(active_torrents, "hv")
    /\ is_valid(ses, "hv", Lookup(active_torrents, "hv"))
    /\ Record("hv").hls_last_accessed = -1
    /\ Record("hv").hls_process = 0
    /\ Record("hv").status = "paused"
    /\ ses["hv"].paused
    /\ Len(procs) = 1
    /\ procs[1].st = "exited"
    /\ now = MaxClock
    /\ reaper.pc = "sleep"

(* C19: a step of the reaper changes nothing of a registered torrent whose  *)
(* hls_process is null: the session's paused flag and the record (status,   *)
(* hls_last_accessed and the other fields) stay as they are.                *)
C19_ReaperActsOnTransmuxersOnly ==
    [][ \A h \in Hashes :
            /\ cleanup_inactive_streams \/ cleanup_resume
            /\ Registered(active_torrents, h)
            /\ Record(h).hls_process = 0
            => /\ ses'[h].paused = ses[h].paused
               /\ Record(h)' = Record(h) ]_vars

(* C20: the response to Range: bytes=S-E is 206 with Content-Length         *)
(* E-S+1, and when the body generator has ended it has yielded exactly the  *)
(* bytes at offsets S..E, in order: a read that finds the bytes not yet on  *)
(* disk is retried and never ends the body early.                           *)
C20_RangeBodyExact ==
    rd.pc = "done"
        => /\ rd.status = 206
           /\ rd.content_length = rd.end - rd.start + 1
           /\ rd.body = Bytes(rd.start, rd.end)

C22_WarmCacheScheduling ==
    [][ \A h \in Hashes :
            /\ alert_listener
            /\ Registered(active_torrents, h)
            /\ is_valid(ses, h, Lookup(active_torrents, h))
            /\ MetadataAlertPending(h)
            /\ VideoFile(h) # 0
            => /\ ses'[h].prio = [i \in 1..Len(TorrentInfo(h)) |->
                                    IF i = VideoFile(h) THEN 1 ELSE 0]
               /\ ses'[h].deadlines = LeadingPieces(h) ]_vars

(* C23: when stream_file has prioritized the byte range start..end, the     *)
(* piece holding the first byte has the urgent deadline of 1000 ms and      *)
(* every other piece of the range has no deadline.                          *)
C23_RangePrioritized ==
    [][ \A s \in 0..(FileSize - 1) : \A e \in s..(FileSize - 1) :
            stream_file(s, e)
            => /\ rd'.deadline[RangePiece(s)] = UrgentMs
               /\ \A p \in (RangePiece(s) + 1)..RangePiece(e) :
                     rd'.deadline[p] = NoDeadline ]_vars

(* The file priorities of torrent h are one value across all files. *)
UniformPriorities(s, h) ==
    \A i, j \in 1..Len(s[h].prio) : s[h].prio[i] = s[h].prio[j]

LargestVideo(h) ==
    LET fs == TorrentInfo(h)
        video == {i \in 1..Len(fs) : fs[i].ext \in VideoExts}
    IN  IF video = {} THEN 0
        ELSE CHOOSE i \in video :
                /\ \A j \in video : fs[j].size <= fs[i].size
                /\ \A j \in video : j < i => fs[j].size < fs[i].size

(* C25: on the file list a caller has stored in the record of a registered  *)
(* torrent, get_largest_video_file yields the largest video file (lowest    *)
(* index on a tie), and none only when the torrent has no video file.       *)
C25_VideoFileSelection ==
    \A h \in Hashes :
        Registered(active_torrents, h) /\ Record(h).files # << >>
            => get_largest_video_file(Record(h).files) = LargestVideo(h)

StatusMatchesSession(h) == Record(h).status = "paused" <=> ses[h].paused

(* C29: the recorded status of a registered torrent is 'paused' exactly     *)
(* when the session reports it paused, in every state the program's own     *)
(* steps lead to: a step of a handler, the alert loop or the reaper on a    *)
(* record that agrees with the session leaves them in agreement (every      *)
(* pause and resume writes the status too, and no status is written on a    *)
(* paused torrent).  A torrent the session itself stops on an error is      *)
(* left aside.                                                              *)
C29_StatusMatchesSession ==
    [][ \A h \in Hashes :
            /\ Registered(active_torrents, h)
            /\ Registered(active_torrents', h)
            /\ Lookup(active_torrents', h) = Lookup(active_torrents, h)
            /\ is_valid(ses', h, Lookup(active_torrents', h))
            /\ StatusMatchesSession(h)
            /\ ~TorrentError(h)
            => StatusMatchesSession(h)' ]_vars
====
